---- MODULE Spec2Model ----
(***************************************************************************)
(* Model of samseg/cli/merge_add_mesh_alphas.py : main().                  *)
(*                                                                         *)
(* For every requested atlas level the script loads the estimated label    *)
(* statistics and the reference mesh's alphas, merges the estimated        *)
(* statistics into existing columns (by label, then by name),              *)
(* renormalizes, appends new classes, and writes the mesh.                 *)
(*                                                                         *)
(* Numbers.  numpy float64 values are modelled as exact rationals          *)
(* <<n, d>> (d > 0, lowest terms): the model checks the real-number        *)
(* arithmetic of the script, not floating-point rounding.  Machine         *)
(* epsilon (2^-52) does not fit TLC's 32-bit integers together with the    *)
(* other operands; eps is a small positive rational standing for it.       *)
(*                                                                         *)
(* Not modelled: argument parsing, the log file and merged_labels.txt      *)
(* written before the level loop, the mesh geometry, and the text format   *)
(* of the files.                                                           *)
(*                                                                         *)
(* Python values.  An argparse option with nargs='+' is either None or a   *)
(* non-empty list, so the empty sequence <<>> stands for None.  The local  *)
(* variable l of main() is unbound until a for-loop assigns it; Unbound    *)
(* stands for that.  Python indices are 0-based and kept 0-based here; a   *)
(* TLA+ sequence position is the Python index plus one.                    *)
(***************************************************************************)
EXTENDS Integers, Sequences, FiniteSets, TLC

(***************************************************************************)
(* Bounds of the model: maximal lengths of the command-line lists.         *)
(***************************************************************************)
MaxMergeLabels == 2
MaxMergeNames == 1
MaxMergeIndexes == 2
MaxAddIndexes == 2
MaxLevels == 2

(***************************************************************************)
(* Exact rational arithmetic.                                              *)
(***************************************************************************)
Abs(x) == IF x < 0 THEN -x ELSE x

RECURSIVE GCD(_, _)
GCD(a, b) == IF b = 0 THEN a ELSE GCD(b, a % b)

\* the rational n/d in lowest terms with a positive denominator (d # 0)
Rat(n, d) ==
    LET g == GCD(Abs(n), Abs(d))
        s == IF d < 0 THEN -1 ELSE 1
    IN  <<(s * n) \div g, (s * d) \div g>>

Zero == <<0, 1>>
One == <<1, 1>>
RInt(k) == <<k, 1>>

RAdd(a, b) ==
    LET g == GCD(a[2], b[2])
    IN  Rat(a[1] * (b[2] \div g) + b[1] * (a[2] \div g), (a[2] \div g) * b[2])
RSub(a, b) == RAdd(a, <<-b[1], b[2]>>)
RMul(a, b) ==
    LET g1 == GCD(Abs(a[1]), b[2])
        g2 == GCD(Abs(b[1]), a[2])
    IN  Rat((a[1] \div g1) * (b[1] \div g2), (a[2] \div g2) * (b[2] \div g1))
\* a / b, b # 0
RDiv(a, b) == RMul(a, Rat(b[2], b[1]))
RLeq(a, b) == a[1] * b[2] <= b[1] * a[2]

RECURSIVE RSum(_)
\* np.sum / the numerator of np.mean over a 1-D array
RSum(s) == IF s = <<>> THEN Zero ELSE RAdd(s[1], RSum(Tail(s)))
RMean(s) == RDiv(RSum(s), RInt(Len(s)))

\* eps = np.finfo(float).eps
eps == <<1, 64>>

\* samseg_subjects = 20
samseg_subjects == 20

(***************************************************************************)
(* The files the script reads.                                             *)
(***************************************************************************)
\* kvlReadCompressionLookupTable(compressionLookupTable.txt): the labels
\* and names of the atlas classes, in column order
freesurfer_labels == <<0, 2, 3>>
names == <<"Unknown", "WM", "GM">>

\* the levels the atlas directory and the statistics directories hold
AtlasLevels == {1, 2}

Half == <<1, 2>>
Quarter == <<1, 4>>

\* atlas_level<level>.txt.gz : the reference mesh's alphas, one row per
\* vertex, one column per class; every row is a probability vector
MeshAlphas(level) ==
    IF level = 1
    THEN << <<Half, Quarter, Quarter>>, <<Zero, One, Zero>> >>
    ELSE << <<Quarter, Half, Quarter>>, <<Half, Zero, Half>> >>

\* <adir>/label_statistics_atlas_<level>.npy : [vertex][class][subject];
\* directory "A" holds one subject, directory "B" two
LabelStatistics(adir, level) ==
    IF adir = "A"
    THEN IF level = 1
         THEN << << <<Half>>, <<One>>, <<Zero>> >>,
                 << <<Zero>>, <<Quarter>>, <<Half>> >> >>
         ELSE << << <<Quarter>>, <<Half>>, <<Zero>> >>,
                 << <<One>>, <<Zero>>, <<Quarter>> >> >>
    ELSE IF level = 1
         THEN << << <<Zero, Half>>, <<One, Half>>, <<Quarter, Zero>> >>,
                 << <<One, One>>, <<Zero, Quarter>>, <<Half, Half>> >> >>
         ELSE << << <<Half, Zero>>, <<Zero, One>>, <<One, Quarter>> >>,
                 << <<Quarter, Half>>, <<Half, Half>>, <<Zero, Zero>> >> >>

(***************************************************************************)
(* Python / numpy primitives.                                              *)
(***************************************************************************)
\* the unbound local variable l
Unbound == -1

\* ListIndex with a missing element taken for the last position, as an
\* unchecked -1 used as an index would be
ListIndex_last(list, x) ==
    IF \E i \in 1..Len(list) : list[i] = x
    THEN (CHOOSE i \in 1..Len(list) :
              list[i] = x /\ \A j \in 1..(i - 1) : list[j] # x) - 1
    ELSE Len(list) - 1

\* list.index(x) as a 0-based position; -1 stands for ValueError
ListIndex(list, x) ==
    IF \E i \in 1..Len(list) : list[i] = x
    THEN (CHOOSE i \in 1..Len(list) :
              list[i] = x /\ \A j \in 1..(i - 1) : list[j] # x) - 1
    ELSE -1

\* numpy accepts an integer index i on an axis of size n iff -n <= i < n
AxisOK(i, n) == -n <= i /\ i < n
\* and a negative index counts from the end of the axis
AxisPos(i, n) == IF i < 0 THEN i + n ELSE i

\* estimated_alphas.shape[1], estimated_alphas.shape[2]
NumEstClasses(est) == Len(est[1])
NumSubjects(est) == Len(est[1][1])

\* estimated_alphas[:, idx, :][v] : the subject values of vertex v
Slice(est, v, idx) == est[v][AxisPos(idx, NumEstClasses(est)) + 1]

\* np.concatenate((x, a), axis=2)
Concatenate(x, a) ==
    [v \in DOMAIN x |-> [c \in DOMAIN x[v] |-> x[v][c] \o a[v][c]]]

(***************************************************************************)
(* The local variables of main() that the level loop writes, as a record:  *)
(* estimated_alphas, alphas, l, idx, idx2; mesh_alphas, the alphas of the  *)
(* mesh object (mesh.alphas); and `raised`, the exception that ended the   *)
(* run ("" while none has been raised).  Three more fields record what     *)
(* the current pass of the loop body has done: `steps`, the blocks         *)
(* executed; `reads`, one entry [col, src] per slice                       *)
(* estimated_alphas[:, src, :] read (col is the target column of a merge,  *)
(* or the new column of an add); `pre_add`, alphas as the add block found  *)
(* it.                                                                     *)
(***************************************************************************)
Raise(loc, e) == [loc EXCEPT !.raised = e]

\* the locals when the level loop is entered: nothing assigned yet
FreshLocals ==
    [estimated_alphas |-> <<>>, mesh_alphas |-> <<>>, alphas |-> <<>>,
     l |-> Unbound, idx |-> Unbound, idx2 |-> Unbound, raised |-> "",
     steps |-> <<>>, reads |-> <<>>, pre_add |-> <<>>]

\* ResetEstimated without the reset: the statistics of the previous level
\* stay in the list the files are concatenated to
ResetEstimated_keep(prev) == prev

\* estimated_alphas = []  at the top of the loop body
ResetEstimated(prev) == <<>>

RECURSIVE ReadEstimated(_, _, _)
\* the loop over args.estimated_alpha_dirs
ReadEstimated(estimated, dirs, level) ==
    IF dirs = <<>>
    THEN estimated
    ELSE LET a == LabelStatistics(dirs[1], level)
         IN  ReadEstimated(IF Len(estimated) = 0 THEN a
                           ELSE Concatenate(estimated, a),
                           Tail(dirs), level)

\* the body of the level loop down to alphas = mesh.alphas.copy();
\* np.load raises for a level that has no label_statistics file
LoadLevel(loc, args, level) ==
    IF level \notin AtlasLevels
    THEN Raise([loc EXCEPT !.estimated_alphas = ResetEstimated(@),
                           !.steps = <<>>, !.reads = <<>>, !.pre_add = <<>>],
               "FileNotFoundError")
    ELSE [loc EXCEPT
            !.estimated_alphas =
                ReadEstimated(ResetEstimated(loc.estimated_alphas),
                              args.estimated_alpha_dirs, level),
            !.mesh_alphas = MeshAlphas(level),
            !.alphas = MeshAlphas(level),
            !.steps = <<"load">>, !.reads = <<>>, !.pre_add = <<>>]

\* alphas[:, idx] = (alphas[:, idx] * samseg_subjects
\*                   + np.sum(estimated_alphas[:, idx2, :], axis=1))
\*                  / (samseg_subjects + estimated_alphas.shape[2])
MergeColumn(alphas, est, idx, idx2) ==
    [v \in DOMAIN alphas |->
        [alphas[v] EXCEPT ![idx + 1] =
            RDiv(RAdd(RMul(@, RInt(samseg_subjects)), RSum(Slice(est, v, idx2))),
                 RInt(samseg_subjects + NumSubjects(est)))]]

\* the statements both merge loops share once l is known: pick idx2,
\* resolve the target in `table`, merge the column
MergeTarget(loc, args, table, target) ==
    IF loc.l = Unbound
    THEN Raise(loc, "UnboundLocalError")
    ELSE IF args.merge_indexes # <<>> /\ loc.l >= Len(args.merge_indexes)
    THEN Raise(loc, "IndexError")
    ELSE LET idx2 == IF args.merge_indexes # <<>>
                     THEN args.merge_indexes[loc.l + 1]
                     ELSE loc.l + 1
             idx == ListIndex(table, target)
             loc2 == [loc EXCEPT !.idx2 = idx2]
         IN  IF idx = -1
             THEN Raise(loc2, "ValueError")
             ELSE IF ~AxisOK(idx2, NumEstClasses(loc.estimated_alphas))
             THEN Raise([loc2 EXCEPT !.idx = idx], "IndexError")
             ELSE [loc2 EXCEPT !.idx = idx,
                               !.alphas = MergeColumn(loc.alphas,
                                                      loc.estimated_alphas,
                                                      idx, idx2),
                               !.steps = Append(@, "merge"),
                               !.reads = Append(@, [col |-> idx, src |-> idx2])]

\* the value enumerate() gives l in iteration k (k = 1, 2, ...)
EnumerateIndex(k) == k - 1

\* iteration k of  for l, merge_label in enumerate(args.merge_labels)
MergeLabelIter(loc, args, k) ==
    MergeTarget([loc EXCEPT !.l = EnumerateIndex(k)], args,
                freesurfer_labels, args.merge_labels[k])

\* iteration k of  for merge_name in args.merge_names  (l is not assigned)
MergeNameIter(loc, args, k) ==
    MergeTarget(loc, args, names, args.merge_names[k])

\* normalizer = np.sum(m, axis=1) + eps ; m / normalizer[:, None]
Normalize(m) ==
    [v \in DOMAIN m |->
        [c \in DOMAIN m[v] |-> RDiv(m[v][c], RAdd(RSum(m[v]), eps))]]

\* Renormalize without its condition
Renormalize_always(loc, args) ==
    [loc EXCEPT !.alphas = Normalize(loc.alphas),
                !.steps = Append(@, "renormalize")]

\* if args.merge_labels is not None or args.merge_names is not None
MergeRequested(args) == args.merge_labels # <<>> \/ args.merge_names # <<>>

Renormalize(loc, args) ==
    IF MergeRequested(args)
    THEN [loc EXCEPT !.alphas = Normalize(loc.alphas),
                     !.steps = Append(@, "renormalize")]
    ELSE loc

\* tmp = np.zeros([alphas.shape[0], alphas.shape[1] + n])
\* tmp[:, :alphas.shape[1]] = alphas.copy()
ZeroPad(alphas, n) ==
    [v \in DOMAIN alphas |-> alphas[v] \o [i \in 1..n |-> Zero]]

\* np.mean(estimated_alphas[:, idx, :], axis=1)
MeanColumn(est, idx) == [v \in DOMAIN est |-> RMean(Slice(est, v, idx))]

\* tmp[:, pos] = col   (pos a 0-based column)
SetColumn(tmp, pos, col) ==
    [v \in DOMAIN tmp |-> [tmp[v] EXCEPT ![pos + 1] = col[v]]]

\* ScaleExisting without the column slice: the new column is scaled too
ScaleExisting_all(tmp, nc) ==
    [v \in DOMAIN tmp |->
        [c \in DOMAIN tmp[v] |->
            RMul(tmp[v][c], RSub(One, tmp[v][Len(tmp[v])]))]]

\* tmp[:, :nc] *= (1 - tmp[:, -1])[:, None]
ScaleExisting(tmp, nc) ==
    [v \in DOMAIN tmp |->
        [c \in DOMAIN tmp[v] |->
            IF c <= nc
            THEN RMul(tmp[v][c], RSub(One, tmp[v][Len(tmp[v])]))
            ELSE tmp[v][c]]]

\* the branch  len(args.add_indexes) == 1
AddSingle(loc, args) ==
    LET nc == Len(loc.alphas[1])
        idx == args.add_indexes[1]
        loc1 == [loc EXCEPT !.idx = idx, !.pre_add = loc.alphas]
        tmp == ZeroPad(loc.alphas, 1)
    IN  IF ~AxisOK(idx, NumEstClasses(loc.estimated_alphas))
        THEN Raise(loc1, "IndexError")
        ELSE [loc1 EXCEPT
                !.alphas =
                    ScaleExisting(
                        SetColumn(tmp, nc, MeanColumn(loc.estimated_alphas, idx)),
                        nc),
                !.steps = Append(@, "add"),
                !.reads = Append(@, [col |-> nc, src |-> idx])]

RECURSIVE AddMultiFrom(_, _, _, _)
\* the else branch: iterations k, k+1, ... of
\* for l, idx in enumerate(args.add_indexes), then the normalization
AddMultiFrom(loc, tmp, args, k) ==
    IF k > Len(args.add_indexes)
    THEN [loc EXCEPT !.alphas = Normalize(tmp),
                     !.steps = @ \o <<"add", "renormalize">>]
    ELSE LET idx == args.add_indexes[k]
             loc1 == [loc EXCEPT !.l = EnumerateIndex(k), !.idx = idx]
             pos == Len(loc.alphas[1]) + loc1.l
         IN  IF ~AxisOK(idx, NumEstClasses(loc.estimated_alphas))
             THEN Raise(loc1, "IndexError")
             ELSE AddMultiFrom(
                      [loc1 EXCEPT !.reads = Append(@, [col |-> pos, src |-> idx])],
                      SetColumn(tmp, pos, MeanColumn(loc.estimated_alphas, idx)),
                      args, k + 1)

\* SingleAdd with the two policies unified into the multi-class one
SingleAdd_never(add_indexes) == FALSE

\* the policy test  len(args.add_indexes) == 1
SingleAdd(add_indexes) == Len(add_indexes) = 1

\* if args.add_indexes is not None: ... alphas = tmp
AddClasses(loc, args) ==
    IF args.add_indexes = <<>>
    THEN loc
    ELSE IF SingleAdd(args.add_indexes)
    THEN AddSingle(loc, args)
    ELSE AddMultiFrom([loc EXCEPT !.pre_add = loc.alphas],
                      ZeroPad(loc.alphas, Len(args.add_indexes)), args, 1)

\* mesh.alphas = alphas, just before mesh_collection.write(...)
SetMeshAlphas(loc) ==
    [loc EXCEPT !.mesh_alphas = loc.alphas, !.steps = Append(@, "write")]

(***************************************************************************)
(* One pass of the loop body as a function of the locals it starts from.   *)
(***************************************************************************)
RECURSIVE MergeLabelsFrom(_, _, _)
MergeLabelsFrom(loc, args, k) ==
    IF loc.raised # "" \/ k > Len(args.merge_labels)
    THEN loc
    ELSE MergeLabelsFrom(MergeLabelIter(loc, args, k), args, k + 1)

RECURSIVE MergeNamesFrom(_, _, _)
MergeNamesFrom(loc, args, k) ==
    IF loc.raised # "" \/ k > Len(args.merge_names)
    THEN loc
    ELSE MergeNamesFrom(MergeNameIter(loc, args, k), args, k + 1)

RunLevel(loc, args, level) ==
    LET merged == MergeNamesFrom(
                      MergeLabelsFrom(LoadLevel(loc, args, level), args, 1),
                      args, 1)
    IN  IF merged.raised # ""
        THEN merged
        ELSE AddClasses(Renormalize(merged, args), args)

(***************************************************************************)
(* State.                                                                  *)
(*   args       the parsed command line                                    *)
(*   levellist  the levels to process                                      *)
(*   pc         the block of the loop body to execute next, "done" after   *)
(*              the loop, "raised" once an exception has ended the run     *)
(*   level_pos  the position in levellist of the level being processed     *)
(*   k          the iteration the running merge loop executes next         *)
(*   loc        the locals (above)                                         *)
(*   written    level -> the alphas of out_dir/atlas_level<level>.txt,     *)
(*              <<>> while the file does not exist                         *)
(*   emitted    the levels written, in the order of writing                *)
(***************************************************************************)
VARIABLES args, levellist, pc, level_pos, k, loc, written, emitted

vars == <<args, levellist, pc, level_pos, k, loc, written, emitted>>

\* the values --level may list; level 3 has no files
Levels == {1, 2, 3}

\* all sequences over S of length 0..n
SeqsUpTo(S, n) == UNION {[1..m -> S] : m \in 0..n}

LabelChoices == {2, 3, 99}
NameChoices == {"GM", "Bogus"}
MergeIndexChoices == {0, 1, 2, 3}
AddIndexChoices == {-1, 0, 1, 2, 3}

Args(dirs, labels, indexes, mnames, add) ==
    [estimated_alpha_dirs |-> dirs, merge_labels |-> labels,
     merge_indexes |-> indexes, merge_names |-> mnames, add_indexes |-> add]

\* command lines that vary the merge options
MergeRuns ==
    {<<Args(d, ml, mi, mn, add), <<1>>>> :
        d \in {<<"A">>, <<"A", "B">>},
        ml \in SeqsUpTo(LabelChoices, MaxMergeLabels),
        mi \in SeqsUpTo(MergeIndexChoices, MaxMergeIndexes),
        mn \in SeqsUpTo(NameChoices, MaxMergeNames),
        add \in {<<>>, <<1>>}}

\* command lines that vary --add-indexes
AddRuns ==
    {<<Args(d, ml, <<>>, mn, add), <<1>>>> :
        d \in {<<"A">>, <<"A", "B">>},
        ml \in {<<>>, <<2>>},
        mn \in {<<>>, <<"GM">>},
        add \in SeqsUpTo(AddIndexChoices, MaxAddIndexes)}

\* command lines that vary --level
LevelRuns ==
    {<<Args(<<"A", "B">>, ml, mi, mn, add), lv>> :
        ml \in {<<>>, <<2>>, <<2, 99>>},
        mi \in {<<>>, <<2, 1>>},
        mn \in {<<>>, <<"GM">>},
        add \in {<<>>, <<1>>, <<2, 1>>, <<1, 3>>},
        lv \in SeqsUpTo(Levels, MaxLevels) \ {<<>>}}

Init ==
    /\ \E run \in MergeRuns \cup AddRuns \cup LevelRuns :
          args = run[1] /\ levellist = run[2]
    /\ pc = "load"
    /\ level_pos = 1
    /\ k = 1
    /\ loc = FreshLocals
    /\ written = [lv \in Levels |-> <<>>]
    /\ emitted = <<>>

level == levellist[level_pos]

\* Continue with the exception swallowed
Continue_swallow(next) == next

\* an exception leaves main(): nothing after it runs
Continue(next) == IF loc'.raised # "" THEN "raised" ELSE next

\* for level in levellist: read the statistics and the mesh
Load ==
    /\ pc = "load"
    /\ loc' = LoadLevel(loc, args, level)
    /\ pc' = Continue("merge_labels")
    /\ k' = 1
    /\ UNCHANGED <<args, levellist, level_pos, written, emitted>>

\* if args.merge_labels is not None: one iteration of its loop, or its end
MergeLabels ==
    /\ pc = "merge_labels"
    /\ IF k <= Len(args.merge_labels)
       THEN /\ loc' = MergeLabelIter(loc, args, k)
            /\ pc' = Continue("merge_labels")
            /\ k' = k + 1
       ELSE /\ loc' = loc
            /\ pc' = "merge_names"
            /\ k' = 1
    /\ UNCHANGED <<args, levellist, level_pos, written, emitted>>

\* if args.merge_names is not None: one iteration of its loop, or its end
MergeNames ==
    /\ pc = "merge_names"
    /\ IF k <= Len(args.merge_names)
       THEN /\ loc' = MergeNameIter(loc, args, k)
            /\ pc' = Continue("merge_names")
            /\ k' = k + 1
       ELSE /\ loc' = loc
            /\ pc' = "renormalize"
            /\ k' = 1
    /\ UNCHANGED <<args, levellist, level_pos, written, emitted>>

\* Re-normalize alphas
RenormalizeMerged ==
    /\ pc = "renormalize"
    /\ loc' = Renormalize(loc, args)
    /\ pc' = "add"
    /\ UNCHANGED <<args, levellist, level_pos, k, written, emitted>>

\* Here we add classes
Add ==
    /\ pc = "add"
    /\ loc' = AddClasses(loc, args)
    /\ pc' = Continue("write")
    /\ UNCHANGED <<args, levellist, level_pos, k, written, emitted>>

\* mesh.alphas = alphas ; mesh_collection.write(atlas_level<level>.txt),
\* then the next level, or the end of the loop
Write ==
    /\ pc = "write"
    /\ loc' = SetMeshAlphas(loc)
    /\ written' = [written EXCEPT ![level] = loc'.mesh_alphas]
    /\ emitted' = Append(emitted, level)
    /\ IF level_pos < Len(levellist)
       THEN level_pos' = level_pos + 1 /\ pc' = "load"
       ELSE level_pos' = level_pos /\ pc' = "done"
    /\ UNCHANGED <<args, levellist, k>>

Next ==
    \/ Load
    \/ MergeLabels
    \/ MergeNames
    \/ RenormalizeMerged
    \/ Add
    \/ Write

Spec == Init /\ [][Next]_vars

(***************************************************************************)
(* Vocabulary of the properties.                                           *)
(***************************************************************************)
Range(s) == {s[i] : i \in DOMAIN s}

\* the merge targets in declaration order: the labels, then the names
NumTargets == Len(args.merge_labels) + Len(args.merge_names)

\* the column target t resolves to, -1 when the LabelTable lacks it
TargetColumn(t) ==
    IF t <= Len(args.merge_labels)
    THEN ListIndex(freesurfer_labels, args.merge_labels[t])
    ELSE ListIndex(names, args.merge_names[t - Len(args.merge_labels)])

\* target t has a source index: the t-th explicit index, or t by default
HasSource(t) == args.merge_indexes = <<>> \/ t <= Len(args.merge_indexes)
TargetSource(t) ==
    IF args.merge_indexes = <<>> THEN t ELSE args.merge_indexes[t]

\* the size of the class axis of the statistics files
NumEstimatedClasses == Len(LabelStatistics("A", 1)[1])

\* a valid 1-based position of the class axis
ValidSource(i) == 1 <= i /\ i < NumEstimatedClasses

\* the merge loops have finished and the renormalization has not run
MergeDone == pc = "renormalize"

\* the run was ended by an exception before the merge block finished
MergeFailed ==
    /\ pc = "raised"
    /\ "load" \in Range(loc.steps)
    /\ "renormalize" \notin Range(loc.steps)
    /\ "add" \notin Range(loc.steps)
    /\ loc.pre_add = <<>>

\* C1: when the merge block has finished, every targeted column holds
\* (orig * subjectCount + sum over the new subjects of its source slice)
\* / (subjectCount + numNewSubjects), with orig the column as loaded.
C1_MergeReadsOriginal ==
    MergeDone =>
        \A t \in 1..NumTargets :
            (HasSource(t) /\ TargetColumn(t) >= 0) =>
                (ValidSource(TargetSource(t)) =>
                    \A v \in DOMAIN loc.alphas :
                        loc.alphas[v][TargetColumn(t) + 1] =
                            RDiv(RAdd(RMul(loc.mesh_alphas[v][TargetColumn(t) + 1],
                                           RInt(samseg_subjects)),
                                      RSum(loc.estimated_alphas[v][TargetSource(t) + 1])),
                                 RInt(samseg_subjects
                                      + Len(loc.estimated_alphas[v][1]))))

\* during the merge block the t-th slice read belongs to the t-th target
InMerge == pc \in {"merge_labels", "merge_names", "renormalize"}

\* C2: the t-th merge target reads the t-th supplied source index, or
\* estimated[:, t, :] when no indices are supplied, for labels and names.
C2_SourcePairing ==
    InMerge =>
        \A t \in 1..Len(loc.reads) :
            HasSource(t) /\ loc.reads[t].src = TargetSource(t)

\* a merge given by names only, all known, every source index in range
NamesOnlyValid ==
    /\ args.merge_labels = <<>>
    /\ args.merge_names # <<>>
    /\ \A t \in 1..NumTargets :
          TargetColumn(t) >= 0 /\ HasSource(t) /\ ValidSource(TargetSource(t))

\* C3: a valid merge by names only does not fail.
C3_NamesOnlyMerges == NamesOnlyValid => ~MergeFailed

\* C9: every slice of the estimated statistics that merge or add reads
\* is at a valid 1-based position of the class axis.
C9_ReadsInRange == \A i \in 1..Len(loc.reads) : ValidSource(loc.reads[i].src)

(***************************************************************************)
(* C4: the order of the blocks of one level.                               *)
(***************************************************************************)
\* the blocks of one pass in the only order allowed
BlockOrder == <<"load", "merge", "renormalize", "add", "renormalize", "write">>

RECURSIVE InOrder(_, _)
\* s lists blocks of BlockOrder from position j on, in order, none twice
\* except "merge" (one entry per merged target)
InOrder(s, j) ==
    IF s = <<>> THEN TRUE
    ELSE IF j > Len(BlockOrder) THEN FALSE
    ELSE IF s[1] = BlockOrder[j]
         THEN InOrder(Tail(s), IF s[1] = "merge" THEN j ELSE j + 1)
         ELSE InOrder(s, j + 1)

\* a renormalization ran before any add of this pass
PostMergeRenormalized ==
    \E i \in 1..Len(loc.steps) :
        /\ loc.steps[i] = "renormalize"
        /\ \A j \in 1..i : loc.steps[j] # "add"

\* the pass is beyond the post-merge renormalization
PastRenormalize == pc \in {"add", "write"} \/ "write" \in Range(loc.steps)

NoSpecs == ~(args.merge_labels # <<>> \/ args.merge_names # <<>>)
           /\ args.add_indexes = <<>>

\* C4: the blocks of a level run in the order load, merge, renormalize,
\* add, renormalize, write; the post-merge renormalization runs iff a
\* merge was requested; add runs iff requested; a level with neither
\* spec does not fail in merge or add and writes the matrix it loaded.
C4_BlockOrder ==
    /\ InOrder(loc.steps, 1)
    /\ "merge" \in Range(loc.steps) => (args.merge_labels # <<>> \/ args.merge_names # <<>>)
    /\ "add" \in Range(loc.steps) => args.add_indexes # <<>>
    /\ PastRenormalize =>
          (PostMergeRenormalized <=>
              (args.merge_labels # <<>> \/ args.merge_names # <<>>))
    /\ "write" \in Range(loc.steps) =>
          ("add" \in Range(loc.steps) <=> args.add_indexes # <<>>)
    /\ NoSpecs =>
          /\ loc.raised \in {"", "FileNotFoundError"}
          /\ \A i \in 1..Len(emitted) : written[emitted[i]] = MeshAlphas(emitted[i])

\* a level that merged, renormalized, added and was written
C4_Witness ==
    /\ pc = "done"
    /\ args.add_indexes = <<1>>
    /\ loc.steps = <<"load", "merge", "merge", "renormalize", "add", "write">>

(***************************************************************************)
(* C5, C6: the add policies.                                               *)
(***************************************************************************)
AddRan == "add" \in Range(loc.steps)

\* the subject mean at vertex v of the slice the i-th add index names
AddedMean(v, i) ==
    LET n == NumEstimatedClasses
        a == args.add_indexes[i]
        subjects == loc.estimated_alphas[v][(IF a < 0 THEN a + n ELSE a) + 1]
    IN  RDiv(RSum(subjects), RInt(Len(subjects)))

\* the row of vertex v before the add with the new columns appended
AppendedRow(v) ==
    loc.pre_add[v] \o [i \in 1..Len(args.add_indexes) |-> AddedMean(v, i)]

\* C5: one add index: the new last column is the subject mean, every old
\* column is multiplied by (1 - new column), nothing is renormalized;
\* two or more: the means are appended in order to the unscaled old
\* columns and the row is divided by its sum plus epsilon.  Either way
\* the row has numClasses + len(addSpec) columns.
C5_AddPolicy ==
    AddRan =>
        \A v \in DOMAIN loc.alphas :
            LET old == Len(loc.pre_add[v])
                row == loc.alphas[v]
            IN  /\ Len(row) = old + Len(args.add_indexes)
                /\ IF Len(args.add_indexes) = 1
                   THEN /\ row[old + 1] = AddedMean(v, 1)
                        /\ \A c \in 1..old :
                              row[c] = RMul(loc.pre_add[v][c],
                                            RSub(One, AddedMean(v, 1)))
                        /\ \A i \in 1..Len(loc.steps) :
                              loc.steps[i] = "add" =>
                                  \A j \in i..Len(loc.steps) :
                                      loc.steps[j] # "renormalize"
                   ELSE /\ \A c \in 1..Len(row) :
                              row[c] = RDiv(AppendedRow(v)[c],
                                            RAdd(RSum(AppendedRow(v)), eps))
                        /\ \E i \in 1..(Len(loc.steps) - 1) :
                              loc.steps[i] = "add" /\ loc.steps[i + 1] = "renormalize"

\* a multi-class add with a repeated index after a merge
C5_Witness ==
    /\ AddRan
    /\ args.add_indexes = <<2, 2>>
    /\ args.merge_labels # <<>>
    /\ pc = "done"

\* C6: after a single-class add, a vertex whose row summed to 1 before
\* the add and whose new column lies in [0, 1] has a row that sums to 1
\* with no negative entry.
C6_SingleAddConservesMass ==
    (AddRan /\ Len(args.add_indexes) = 1) =>
        \A v \in DOMAIN loc.alphas :
            (/\ RSum(loc.pre_add[v]) = One
             /\ RLeq(Zero, AddedMean(v, 1))
             /\ RLeq(AddedMean(v, 1), One)) =>
                /\ RSum(loc.alphas[v]) = One
                /\ \A c \in 1..Len(loc.alphas[v]) : RLeq(Zero, loc.alphas[v][c])

\* a single-class add that carved a mass strictly between 0 and 1 out of
\* a row that summed to 1
C6_Witness ==
    /\ AddRan
    /\ args.add_indexes = <<2>>
    /\ \E v \in DOMAIN loc.alphas :
          /\ RSum(loc.pre_add[v]) = One
          /\ AddedMean(v, 1) \notin {Zero, One}
          /\ RLeq(Zero, AddedMean(v, 1))
          /\ RLeq(AddedMean(v, 1), One)
          /\ loc.alphas[v][1] # loc.pre_add[v][1]

(***************************************************************************)
(* C7, C10: failures.                                                      *)
(***************************************************************************)
\* some merge target, label or name, is absent from the LabelTable
UnknownTarget ==
    \/ \E i \in 1..Len(args.merge_labels) :
          args.merge_labels[i] \notin Range(freesurfer_labels)
    \/ \E i \in 1..Len(args.merge_names) :
          args.merge_names[i] \notin Range(names)

Running == pc \notin {"done", "raised"}

\* C7: with a merge target absent from the LabelTable no level gets past
\* its merge block: the run can only end by an exception, the alphas of
\* the mesh stay as loaded and no output is written.
C7_UnknownTargetFails ==
    UnknownTarget =>
        /\ pc \in {"load", "merge_labels", "merge_names", "raised"}
        /\ pc = "raised" <=> loc.raised # ""
        /\ loc.mesh_alphas \in {<<>>} \cup {MeshAlphas(lv) : lv \in AtlasLevels}
        /\ emitted = <<>>
        /\ \A lv \in Levels : written[lv] = <<>>

\* the run failed on an unknown target after a valid target was merged
C7_Witness ==
    /\ UnknownTarget
    /\ pc = "raised"
    /\ loc.raised = "ValueError"
    /\ "merge" \in Range(loc.steps)
    /\ loc.alphas # loc.mesh_alphas
    /\ loc.mesh_alphas = MeshAlphas(level)

\* C10: the levels written are a prefix of the level list, the files that
\* exist are those of the levels written, the level being processed is
\* the one after them, and an exception ends the run: the failed level
\* is not written and nothing runs after it.
C10_LevelsInOrder ==
    /\ Len(emitted) <= Len(levellist)
    /\ emitted = SubSeq(levellist, 1, Len(emitted))
    /\ \A lv \in Levels : written[lv] # <<>> <=> lv \in Range(emitted)
    /\ Running => level_pos = Len(emitted) + 1
    /\ pc = "done" => emitted = levellist
    /\ loc.raised # "" => pc = "raised"
    /\ pc = "raised" =>
          /\ level_pos = Len(emitted) + 1
          /\ ~ENABLED Next

\* level 1 was written, then the run failed at the next level
C10_Witness ==
    /\ pc = "raised"
    /\ Len(levellist) = 2
    /\ emitted = <<1>>
    /\ written[1] # <<>>
    /\ level_pos = 2

(***************************************************************************)
(* C8: level independence.                                                 *)
(***************************************************************************)
\* what a run that requests only level lv does with it
Alone(lv) == RunLevel(FreshLocals, args, lv)

\* C8: every level written holds what a run requesting that level alone
\* writes, and a level fails only if it fails when requested alone.
C8_LevelIndependence ==
    /\ \A i \in 1..Len(emitted) :
          /\ Alone(emitted[i]).raised = ""
          /\ written[emitted[i]] = Alone(emitted[i]).alphas
    /\ pc = "raised" => Alone(level).raised = loc.raised

\* levels 1 and 2 both written by a run that merges by label and by name
\* and adds two classes, so that l is bound when level 2 starts
C8_Witness ==
    /\ emitted = <<1, 2>>
    /\ args.merge_names # <<>>
    /\ Len(args.add_indexes) = 2
    /\ written[1] # written[2]
    /\ written[1] # MeshAlphas(1)

====
